---- MODULE Spec2Model ----
(***************************************************************************)
(* StockViz: the portfolio pipeline of src/portfolio_analyzer.py.          *)
(*                                                                         *)
(* A DataFrame is a record [cols, rows, index]: the set of its column      *)
(* names, the sequence of its rows (each row a function from the column    *)
(* names to cells) and the rows' index labels, which a row keeps when      *)
(* other rows are filtered out.  A cell is a string (a sequence of one-character strings, so     *)
(* that strip, upper and substring search are computed), a number (an      *)
(* exact fraction n/d, standing for the float the code holds) or NA        *)
(* (pandas' missing value: NaN/None).                                      *)
(***************************************************************************)
EXTENDS Integers, Sequences, FiniteSets, TLC

(***************************************************************************)
(* Bounds of the model.                                                    *)
(***************************************************************************)
\* rows of an uploaded table
MaxRows == 2
\* holdings of an analyzer whose summary is computed
MaxHoldings == 2
\* calls of validate_portfolio_data on one analyzer after its construction
MaxRevalidations == 1

(***************************************************************************)
(* Strings.                                                                *)
(***************************************************************************)
LowerLetters ==
  <<"a","b","c","d","e","f","g","h","i","j","k","l","m",
    "n","o","p","q","r","s","t","u","v","w","x","y","z">>

UpperLetters ==
  <<"A","B","C","D","E","F","G","H","I","J","K","L","M",
    "N","O","P","Q","R","S","T","U","V","W","X","Y","Z">>

Whitespace == {" ", "\t", "\n", "\r"}

Digits == <<"0","1","2","3","4","5","6","7","8","9">>

\* str.upper() on one character
UpperChar(c) ==
  IF \E i \in 1..Len(LowerLetters) : LowerLetters[i] = c
    THEN UpperLetters[CHOOSE i \in 1..Len(LowerLetters) : LowerLetters[i] = c]
    ELSE c

\* str.upper()
StrUpper(s) == [i \in 1..Len(s) |-> UpperChar(s[i])]

RECURSIVE LStrip(_)
LStrip(s) ==
  IF s # <<>> /\ Head(s) \in Whitespace THEN LStrip(Tail(s)) ELSE s

RECURSIVE RStrip(_)
RStrip(s) ==
  IF s # <<>> /\ s[Len(s)] \in Whitespace
    THEN RStrip(SubSeq(s, 1, Len(s) - 1))
    ELSE s

\* str.strip()
StrStrip(s) == RStrip(LStrip(s))

\* pat occurs in s (one alternative of the regular expression of str.contains)
StrContains(s, pat) ==
  \E i \in 0..(Len(s) - Len(pat)) : SubSeq(s, i + 1, i + Len(pat)) = pat

IsDigit(c) == \E i \in 1..10 : Digits[i] = c

DigitValue(c) == (CHOOSE i \in 1..10 : Digits[i] = c) - 1

RECURSIVE DigitsValue(_)
DigitsValue(s) ==
  IF s = <<>> THEN 0
  ELSE 10 * DigitsValue(SubSeq(s, 1, Len(s) - 1)) + DigitValue(s[Len(s)])

\* the strings of this model that parse as a number: unsigned decimal integers
\* (surrounding blanks allowed, as float() and pd.to_numeric allow them)
IsNumeric(s) ==
  LET t == StrStrip(s) IN t # <<>> /\ \A i \in 1..Len(t) : IsDigit(t[i])

(***************************************************************************)
(* Numbers: exact fractions n/d with d > 0, in lowest terms.               *)
(***************************************************************************)
Abs(x) == IF x < 0 THEN -x ELSE x

RECURSIVE GCD(_, _)
GCD(a, b) == IF b = 0 THEN a ELSE GCD(b, a % b)

Rat(n, d) ==
  LET sn == IF d < 0 THEN -n ELSE n
      sd == Abs(d)
      g == GCD(Abs(sn), sd)
  IN [n |-> sn \div g, d |-> sd \div g]

RatAdd(x, y) == Rat(x.n * y.d + y.n * x.d, x.d * y.d)
RatSub(x, y) == Rat(x.n * y.d - y.n * x.d, x.d * y.d)
RatMul(x, y) == Rat(x.n * y.n, x.d * y.d)
\* x / y for y # 0
RatDiv(x, y) == Rat(x.n * y.d, x.d * y.n)
RatLess(x, y) == x.n * y.d < y.n * x.d
RatInt(k) == [n |-> k, d |-> 1]
RatZero == RatInt(0)
RatOne == RatInt(1)

(***************************************************************************)
(* Cells.                                                                  *)
(***************************************************************************)
Str(s) == [t |-> "str", s |-> s]
Num(q) == [t |-> "num", q |-> q]
NA == [t |-> "na"]

IsStr(c) == c.t = "str"
IsNum(c) == c.t = "num"
IsNA(c) == c.t = "na"

NumInt(k) == Num(RatInt(k))

\* the text of NaN under astype(str)
NanText == <<"n","a","n">>

\* Series.astype(str) on one cell.  A missing value becomes the text "nan"
\* (pandas < 3) or stays missing (pandas >= 3, the str dtype): naAsText says
\* which.  The model's symbol and label columns hold strings or NA only.
AsTypeStr(c, naAsText) ==
  IF IsNA(c) THEN (IF naAsText THEN Str(NanText) ELSE NA) ELSE c

\* pd.to_numeric(errors='coerce') on one cell
ToNumeric(c) ==
  CASE IsNum(c) -> c
    [] IsStr(c) -> IF IsNumeric(c.s) THEN NumInt(DigitsValue(StrStrip(c.s))) ELSE NA
    [] OTHER -> NA

(***************************************************************************)
(* DataFrames.                                                             *)
(***************************************************************************)
NRows(df) == Len(df.rows)

\* df[name] as a sequence of cells
Column(df, name) == [i \in 1..NRows(df) |-> df.rows[i][name]]

\* df[name] = vals (a new column, or an existing one overwritten)
SetColumn(df, name, vals) ==
  [cols |-> df.cols \cup {name},
   index |-> df.index,
   rows |-> [i \in 1..NRows(df) |->
               [c \in df.cols \cup {name} |->
                  IF c = name THEN vals[i] ELSE df.rows[i][c]]]]

\* df[keep], keep a boolean mask over the rows
RECURSIVE MaskRows(_, _)
MaskRows(rows, keep) ==
  IF rows = <<>> THEN <<>>
  ELSE (IF Head(keep) THEN <<Head(rows)>> ELSE <<>>)
       \o MaskRows(Tail(rows), Tail(keep))

FilterRows(df, keep) ==
  [cols |-> df.cols,
   rows |-> MaskRows(df.rows, keep),
   index |-> MaskRows(df.index, keep)]

\* the first name of the ordered list names that is a column of df; 0 if none
\* (the for ... if col in columns ... break ... else loops)
FirstPresent(names, cols) ==
  IF \E i \in 1..Len(names) : names[i] \in cols
    THEN CHOOSE i \in 1..Len(names) :
           names[i] \in cols /\ \A j \in 1..(i - 1) : names[j] \notin cols
    ELSE 0

\* the largest number of a sequence of cells, missing values skipped
\* (Series.max()); only used when some cell is a number
RECURSIVE MaxNum(_)
MaxNum(cells) ==
  IF Len(cells) = 1 THEN Head(cells)
  ELSE LET m == MaxNum(Tail(cells))
       IN CASE IsNA(Head(cells)) -> m
            [] IsNA(m) -> Head(cells)
            [] RatLess(m.q, Head(cells).q) -> Head(cells)
            [] OTHER -> m

(***************************************************************************)
(* PortfolioAnalyzer.validate_portfolio_data.                              *)
(***************************************************************************)
\* the alternatives of 'Total|TOTAL|total|Summary|SUMMARY|summary'
SummaryPatterns ==
  { <<"T","o","t","a","l">>, <<"T","O","T","A","L">>, <<"t","o","t","a","l">>,
    <<"S","u","m","m","a","r","y">>, <<"S","U","M","M","A","R","Y">>,
    <<"s","u","m","m","a","r","y">> }

symbol_columns == <<"symbol", "ticker", "Ticker", "SYMBOL", "Stock", "stock", "Slice">>

shares_columns ==
  <<"shares", "quantity", "Quantity", "SHARES", "Amount", "amount", "Owned quantity">>

weight_columns == <<"weight", "Weight", "WEIGHT", "Allocation", "allocation", "%">>

\* Slice.astype(str).str.contains(pattern, na=False) on one cell
IsSummaryLabel(c, naAsText) ==
  LET t == AsTypeStr(c, naAsText)
  IN IsStr(t) /\ \E pat \in SummaryPatterns : StrContains(t.s, pat)

\* lines 22-26: the rows whose Slice matches the pattern are removed
DropSummaryRows(df, naAsText) ==
  IF "Slice" \in df.cols
    THEN FilterRows(df, [i \in 1..NRows(df) |->
                           ~IsSummaryLabel(df.rows[i]["Slice"], naAsText)])
    ELSE df

\* lines 29-37 without the test of line 29: only the aliases are looked for
NoSymbolColumn_AliasesOnly(df) == FirstPresent(symbol_columns, df.cols) = 0

\* lines 29-37: whether the for/else raises ValueError
NoSymbolColumn(df) ==
  "Symbol" \notin df.cols /\ FirstPresent(symbol_columns, df.cols) = 0

\* lines 29-35: Symbol is taken from the first alias present
ResolveSymbol(df) ==
  IF "Symbol" \in df.cols THEN df
  ELSE SetColumn(df, "Symbol",
                 Column(df, symbol_columns[FirstPresent(symbol_columns, df.cols)]))

\* line 40 on one cell: astype(str).str.strip().str.upper()
CleanSymbolCell(c, naAsText) ==
  LET t == AsTypeStr(c, naAsText)
  IN IF IsStr(t) THEN Str(StrUpper(StrStrip(t.s))) ELSE t

\* line 40
CleanSymbol(df, naAsText) ==
  SetColumn(df, "Symbol",
            [i \in 1..NRows(df) |-> CleanSymbolCell(df.rows[i]["Symbol"], naAsText)])

\* lines 43-44
ResolveCompanyName(df) ==
  IF "Name" \in df.cols /\ "Company Name" \notin df.cols
    THEN SetColumn(df, "Company Name", Column(df, "Name"))
    ELSE df

\* lines 59-62: to_numeric, then / 100 when some value is a number and the
\* largest is above 1
RescaleWeights(cells) ==
  LET weights == [i \in 1..Len(cells) |-> ToNumeric(cells[i])]
  IN IF (\E i \in 1..Len(weights) : IsNum(weights[i]))
        /\ RatLess(RatOne, MaxNum(weights).q)
       THEN [i \in 1..Len(weights) |->
               IF IsNum(weights[i])
                 THEN Num(RatDiv(weights[i].q, RatInt(100)))
                 ELSE weights[i]]
       ELSE weights

\* line 47: the quantity block runs
QuantityBlockRuns(df) == "Shares" \notin df.cols /\ "Weight" \notin df.cols

\* line 67 is reached: neither a shares alias nor a weight alias
EqualWeightsCase(df) ==
  /\ QuantityBlockRuns(df)
  /\ FirstPresent(shares_columns, df.cols) = 0
  /\ FirstPresent(weight_columns, df.cols) = 0

\* lines 47-67, for a table on which line 67 does not divide by zero
ResolveQuantity(df) ==
  LET s == FirstPresent(shares_columns, df.cols)
      w == FirstPresent(weight_columns, df.cols)
  IN CASE ~QuantityBlockRuns(df) -> df
       [] s # 0 ->
            SetColumn(df, "Shares",
                      [i \in 1..NRows(df) |-> ToNumeric(df.rows[i][shares_columns[s]])])
       [] w # 0 ->
            SetColumn(df, "Weight", RescaleWeights(Column(df, weight_columns[w])))
       [] OTHER ->
            SetColumn(df, "Weight",
                      [i \in 1..NRows(df) |-> Num(Rat(1, NRows(df)))])

\* df[target] = pd.to_numeric(df[source], errors='coerce')
NumericCopy(df, target, source) ==
  SetColumn(df, target, [i \in 1..NRows(df) |-> ToNumeric(df.rows[i][source])])

\* lines 70-71
ResolveCurrentValue(df) ==
  IF "Value" \in df.cols /\ "Current Value" \notin df.cols
    THEN NumericCopy(df, "Current Value", "Value")
    ELSE df

\* lines 79-80: dropna(subset=['Symbol']), then Symbol != ''
DropInvalidSymbols(df) ==
  FilterRows(df, [i \in 1..NRows(df) |->
                    LET c == df.rows[i]["Symbol"]
                    IN ~IsNA(c) /\ ~(IsStr(c) /\ c.s = <<>>)])

\* what a call ends with: the exception it raises ("none": it returns) and
\* self.portfolio_df as the call leaves it
Returned(df) == [error |-> "none", df |-> df]
Raised(e, df) == [error |-> e, df |-> df]

\* validate_portfolio_data on self.portfolio_df = df
Validate(df, naAsText) ==
  LET d1 == DropSummaryRows(df, naAsText)
  IN IF NoSymbolColumn(d1) THEN Raised("ValueError", d1)
     ELSE
       LET d2 == ResolveCompanyName(CleanSymbol(ResolveSymbol(d1), naAsText))
       IN IF EqualWeightsCase(d2) /\ NRows(d2) = 0
            THEN Raised("ZeroDivisionError", d2)
            ELSE
              LET d3 == ResolveCurrentValue(ResolveQuantity(d2))
              IN IF "Invested value" \notin d3.cols THEN Raised("KeyError", d3)
                 ELSE
                   LET d4 == NumericCopy(d3, "Cost (£)", "Invested value")
                   IN IF "Value" \notin d4.cols THEN Raised("KeyError", d4)
                      ELSE
                        LET d5 == NumericCopy(d4, "Value (£)", "Value")
                        IN IF "Result" \notin d5.cols THEN Raised("KeyError", d5)
                           ELSE Returned(DropInvalidSymbols(
                                           NumericCopy(d5, "P&L (£)", "Result")))

(***************************************************************************)
(* The uploaded tables the model draws from.                               *)
(***************************************************************************)
\* the rows over the columns cols, each cell of column c drawn from dom[c]
RECURSIVE RowsOver(_, _)
RowsOver(cols, dom) ==
  IF cols = {} THEN { [c \in {} |-> NA] }
  ELSE LET c == CHOOSE x \in cols : TRUE
       IN { [x \in cols |-> IF x = c THEN v ELSE r[x]] :
              v \in dom[c], r \in RowsOver(cols \ {c}, dom) }

\* the tables of minRows to maxRows rows whose columns are DOMAIN dom
TablesOf(dom, minRows, maxRows) ==
  { [cols |-> DOMAIN dom, rows |-> r, index |-> [i \in 1..Len(r) |-> i]] :
      r \in UNION { [1..n -> RowsOver(DOMAIN dom, dom)] : n \in minRows..maxRows } }

sAB == <<"A","B">>
sPaddedCd == <<" ","c","d"," ">>
sBlank == <<" ">>
sEmpty == <<>>
sTotal == <<"T","o","t","a","l">>
sToTaL == <<"T","o","T","a","L">>
sGrandTotal == <<"G","r","a","n","d"," ","t","o","t","a","l">>
sEF == <<"E","F">>
sFifty == <<"5","0">>
sX == <<"x">>

\* column names a table may carry; "TICKER" is no alias of the symbol column
ColumnUniverse ==
  {"Symbol", "ticker", "Slice", "TICKER", "Name", "Shares", "quantity",
   "Weight", "weight", "Invested value", "Value", "Result"}

\* one typical cell per column
TypicalCell(c) ==
  CASE c \in {"Symbol", "ticker", "TICKER"} -> Str(sAB)
    [] c = "Slice" -> Str(sEF)
    [] c = "Name" -> Str(sEF)
    [] c \in {"Shares", "quantity"} -> NumInt(100)
    [] c \in {"Weight", "weight"} -> NumInt(40)
    [] c = "Invested value" -> NumInt(100)
    [] c = "Value" -> NumInt(150)
    [] OTHER -> NumInt(50)

\* every set of columns, with typical cells, in tables that have rows
ColumnTables(maxRows) ==
  UNION { TablesOf([c \in C |-> {TypicalCell(c)}], 1, maxRows) :
            C \in SUBSET ColumnUniverse }

\* the three columns lines 74-76 read, with typical cells
Passthrough ==
  [c \in {"Invested value", "Value", "Result"} |-> {TypicalCell(c)}]

\* f extended by g (g wins)
Extend(f, g) ==
  [c \in DOMAIN f \cup DOMAIN g |-> IF c \in DOMAIN g THEN g[c] ELSE f[c]]

SymbolCells == {Str(sAB), Str(sPaddedCd), Str(sEmpty), Str(sBlank), NA}
LabelCells == {Str(sEF), Str(sTotal), Str(sToTaL), Str(sGrandTotal), NA}
WeightCells == {NumInt(40), NumInt(1), Num(Rat(1, 2)), NA}
SharesCells == {NumInt(100), Str(sFifty), Str(sX), NA}

\* tables that have the three passthrough columns and differ in their cells
ContentSchemas ==
  { Extend(Passthrough, [c \in {"Symbol", "Slice"} |->
                           IF c = "Symbol" THEN SymbolCells ELSE LabelCells]),
    Extend(Passthrough, [c \in {"Symbol", "Weight"} |->
                           IF c = "Symbol" THEN {Str(sAB), Str(sEmpty)} ELSE WeightCells]),
    Extend(Passthrough, [c \in {"Symbol", "weight"} |->
                           IF c = "Symbol" THEN {Str(sAB), Str(sEmpty)} ELSE WeightCells]),
    Extend(Passthrough, [c \in {"Symbol", "Shares", "Invested value"} |->
                           CASE c = "Symbol" -> {Str(sAB), Str(sPaddedCd)}
                             [] c = "Shares" -> SharesCells
                             [] OTHER -> {NumInt(0), NumInt(100)}]),
    Extend(Passthrough, [c \in {"Slice", "quantity"} |->
                           IF c = "Slice" THEN LabelCells ELSE {NumInt(100), NA}]) }

ContentTables(maxRows) ==
  UNION { TablesOf(dom, 0, maxRows) : dom \in ContentSchemas }

\* the uploads of at most maxRows rows
InputTables(maxRows) == ColumnTables(maxRows) \cup ContentTables(maxRows)

(***************************************************************************)
(* State.                                                                  *)
(***************************************************************************)
VARIABLES
  input,          \* the table handed to PortfolioAnalyzer(...)
  na_as_text,     \* the build's pandas turns NaN into "nan" under astype(str)
  pc,             \* "new": not constructed; "ready": the analyzer exists;
                  \* "failed": the constructor raised, there is no analyzer
  error,          \* the exception the last call of the normalizer raised, or "none"
  portfolio_df,   \* self.portfolio_df
  revalidations,  \* calls of validate_portfolio_data after the construction
  vpc,            \* get_portfolio_summary: "idle", "fetch" (in the loop of
                  \* fetch_stock_data) or "done"
  symbols,        \* the argument of fetch_stock_data
  cursor,         \* the position of its loop in symbols
  stock_data,     \* its dictionary: symbol -> stock info
  warnings,       \* the symbols st.warning was called for, in order
  lookups,        \* what each lookup so far ended with (history variable)
  summary,        \* what get_portfolio_summary returned
  st_errors       \* the exceptions st.error reported, in order

\* technical_indicators.calculate_macd, called on its own
VARIABLES
  prices,         \* the prices argument: the values of the Series, in index
                  \* order (its index labels are the positions 1..len)
  periods,        \* [fast, slow, signal]: the three period arguments
  macd_df         \* what calculate_macd returned

normalizerVars == <<input, na_as_text, pc, error, portfolio_df, revalidations>>

\* the Signal Interpreter on one ticker
VARIABLES
  weekly,         \* the result of the weekly timeframe
  monthly,        \* the result of the monthly timeframe
  analysis        \* the TickerAnalysis, or the no-result signal

\* the Ticker Ranker
VARIABLES
  tickers,        \* the ticker symbols handed to the ranker, in order
  rcursor,        \* the position of its loop in tickers
  fetched,        \* what the ranker got for each ticker so far: the number of
                  \* raw price points and the interpretation (history variable)
  results,        \* the analyses collected so far, in first-seen order
  ranked          \* the list the ranker returned

\* the dashboard script of app.py
VARIABLES
  session_portfolio_data,  \* st.session_state.portfolio_data
  session_analyzer,        \* st.session_state.analyzer: None, or the analyzer
                           \* with the table it was constructed from
  sidebar,                 \* what the last script run wrote to the sidebar
  main_rendered,           \* the last script run rendered the main content
  script_runs              \* the script runs so far

\* the result of detect_macd_signals
VARIABLE signals_df

indicatorVars == <<prices, periods, macd_df, signals_df>>

sessionVars ==
  <<session_portfolio_data, session_analyzer, sidebar, main_rendered,
    script_runs>>

interpreterVars == <<weekly, monthly, analysis>>

rankerVars == <<tickers, rcursor, fetched, results, ranked>>

\* the state of everything but the portfolio pipeline
otherVars == <<indicatorVars, interpreterVars, rankerVars, sessionVars>>

valuatorVars ==
  <<vpc, symbols, cursor, stock_data, warnings, lookups, summary, st_errors>>

vars == <<normalizerVars, valuatorVars, otherVars>>

\* there is no analyzer, hence no self.portfolio_df
NoDf == [cols |-> {}, rows |-> <<>>, index |-> <<>>]

\* the empty dictionary
EmptyDict == [k \in {} |-> NA]

\* get_portfolio_summary was not called yet
NoSummary == [kind |-> "unset"]

\* calculate_macd was not called yet
NoMacd == [kind |-> "unset"]

\* detect_macd_signals was not called yet
NoSignals == [kind |-> "unset"]

\* no call of calculate_macd or detect_macd_signals is modelled
IndicatorIdle ==
  /\ prices = <<>>
  /\ periods = [fast |-> 12, slow |-> 26, signal |-> 9]
  /\ macd_df = NoMacd
  /\ signals_df = NoSignals

\* nothing was computed yet
Unset == [kind |-> "unset"]

\* no interpretation is modelled
InterpreterIdle ==
  /\ weekly = Unset
  /\ monthly = Unset
  /\ analysis = Unset

\* no ranking is modelled
RankerIdle ==
  /\ tickers = <<>>
  /\ rcursor = 1
  /\ fetched = <<>>
  /\ results = <<>>
  /\ ranked = Unset

\* Python's None
None == [kind |-> "None"]

\* a new browser session before the first script run
SessionIdle ==
  /\ session_portfolio_data = None
  /\ session_analyzer = None
  /\ sidebar = "uploader"
  /\ main_rendered = FALSE
  /\ script_runs = 0

OthersIdle == IndicatorIdle /\ InterpreterIdle /\ RankerIdle /\ SessionIdle

ValuatorIdle ==
  /\ vpc = "idle"
  /\ symbols = <<>>
  /\ cursor = 1
  /\ stock_data = EmptyDict
  /\ warnings = <<>>
  /\ lookups = <<>>
  /\ summary = NoSummary
  /\ st_errors = <<>>

(***************************************************************************)
(* The normalizer.                                                         *)
(***************************************************************************)
InitNormalizer ==
  /\ input \in InputTables(MaxRows)
  /\ na_as_text \in BOOLEAN
  /\ pc = "new"
  /\ error = "none"
  /\ portfolio_df = NoDf
  /\ revalidations = 0
  /\ ValuatorIdle
  /\ OthersIdle

\* PortfolioAnalyzer(input): __init__ copies the table and validates the copy;
\* an exception leaves the caller without an analyzer
Construct ==
  /\ pc = "new"
  /\ LET r == Validate(input, na_as_text)
     IN /\ error' = r.error
        /\ pc' = IF r.error = "none" THEN "ready" ELSE "failed"
        /\ portfolio_df' = IF r.error = "none" THEN r.df ELSE NoDf
  /\ UNCHANGED <<otherVars, input, na_as_text, revalidations, valuatorVars>>

\* analyzer.validate_portfolio_data() on an analyzer that exists
Revalidate ==
  /\ pc = "ready"
  /\ revalidations < MaxRevalidations
  /\ LET r == Validate(portfolio_df, na_as_text)
     IN /\ error' = r.error
        /\ portfolio_df' = r.df
  /\ revalidations' = revalidations + 1
  /\ UNCHANGED <<otherVars, input, na_as_text, pc, valuatorVars>>

NextNormalizer == Construct \/ Revalidate

SpecNormalizer == InitNormalizer /\ [][NextNormalizer]_vars

(***************************************************************************)
(* PortfolioAnalyzer.fetch_stock_data.                                     *)
(***************************************************************************)
sUnknown == <<"U","n","k","n","o","w","n">>
sCorp == <<"C","o","r","p">>
sTech == <<"T","e","c","h">>
sUSD == <<"U","S","D">>

StockKeys ==
  {"Current Price", "Previous Close", "Market Cap", "Company Name",
   "Sector", "Industry", "Currency"}

\* dict.get(key, default)
Get(dict, key, default) == IF key \in DOMAIN dict THEN dict[key] ELSE default

\* dict[key] = value
Put(dict, key, value) ==
  [k \in DOMAIN dict \cup {key} |-> IF k = key THEN value ELSE dict[k]]

\* lines 113-121 and 125-133: the entry of a symbol without data
Placeholder(symbol) ==
  [k \in StockKeys |->
     CASE k \in {"Current Price", "Previous Close", "Market Cap"} -> NumInt(0)
       [] k = "Company Name" -> Str(symbol)
       [] OTHER -> Str(sUnknown)]

\* lines 101-110: the entry built from the last close and ticker.info
Fetched(symbol, current_price, info) ==
  [k \in StockKeys |->
     CASE k = "Current Price" -> current_price
       [] k = "Previous Close" -> Get(info, "previousClose", current_price)
       [] k = "Market Cap" -> Get(info, "marketCap", NumInt(0))
       [] k = "Company Name" -> Get(info, "longName", Str(symbol))
       [] k = "Sector" -> Get(info, "sector", Str(sUnknown))
       [] k = "Industry" -> Get(info, "industry", Str(sUnknown))
       [] OTHER -> Get(info, "currency", Str(sUnknown))]

sCD == <<"C","D">>

\* the last closes the market-data source answers with for a symbol: AB trades
\* at 150, any other symbol at 300 or at 0.0625
ClosePrices(symbol) ==
  IF symbol = sAB THEN {NumInt(150)} ELSE {NumInt(300), Num(Rat(1, 16))}

\* a ticker.info with every key the code reads
FullInfo ==
  [k \in {"previousClose", "marketCap", "longName", "sector", "industry", "currency"} |->
     CASE k = "previousClose" -> NumInt(100)
       [] k = "marketCap" -> NumInt(1000)
       [] k = "longName" -> Str(sCorp)
       [] k = "currency" -> Str(sUSD)
       [] OTHER -> Str(sTech)]

\* a ticker.info whose previousClose is 0
ZeroCloseInfo == [k \in {"previousClose"} |-> NumInt(0)]

\* the ticker.info dictionaries the market-data source answers with for a symbol
TickerInfos(symbol) ==
  IF symbol = sAB THEN {EmptyDict, FullInfo} ELSE {FullInfo, ZeroCloseInfo}

(***************************************************************************)
(* PortfolioAnalyzer.get_portfolio_summary: the rows.                      *)
(***************************************************************************)
\* float(x) raises ValueError
FloatRaises(c) == IsStr(c) /\ ~IsNumeric(c.s)

\* float(x), for x on which it does not raise; NaN is NA
Float(c) == ToNumeric(c)

\* arithmetic on floats: NaN in, NaN out
CellMul(a, b) == IF IsNA(a) \/ IsNA(b) THEN NA ELSE Num(RatMul(a.q, b.q))
CellSub(a, b) == IF IsNA(a) \/ IsNA(b) THEN NA ELSE Num(RatSub(a.q, b.q))
\* a / b for a b that is not zero
CellDiv(a, b) == IF IsNA(a) \/ IsNA(b) THEN NA ELSE Num(RatDiv(a.q, b.q))

IsZero(c) == IsNum(c) /\ c.q.n = 0
IsPositive(c) == IsNum(c) /\ c.q.n > 0

\* line 168 without pd.notna: a missing share count is multiplied as it is
SharesKnown_IgnoresNull(cols, row) == "Shares" \in cols

\* line 168: 'Shares' in row and pd.notna(row['Shares'])
SharesKnown(cols, row) == "Shares" \in cols /\ ~IsNA(row["Shares"])

\* line 183: 'Weight' in row and pd.notna(row['Weight'])
WeightDeclared(cols, row) == "Weight" \in cols /\ ~IsNA(row["Weight"])

\* line 177 divides by a zero cost
PnlDividesByZero(cols, row) == SharesKnown(cols, row) /\ IsZero(Float(row["Cost (£)"]))

\* the exception the loop body of lines 153-198 raises on the row, or "none"
RowError(cols, row) ==
  CASE SharesKnown(cols, row) /\ FloatRaises(row["Shares"]) -> "ValueError"
    [] PnlDividesByZero(cols, row) -> "ZeroDivisionError"
    [] WeightDeclared(cols, row) /\ FloatRaises(row["Weight"]) -> "ValueError"
    [] OTHER -> "none"

\* the keys of the summary row of a holding
SummaryKeys(cols, row) ==
  {"Symbol", "Company Name", "Sector", "Current Price", "Currency",
   "Previous Close", "Shares", "Market Value", "Weight", "Daily Change (%)"}
  \cup (IF SharesKnown(cols, row)
          THEN {"Cost (£)", "Value (£)", "P&L (£)", "P&L %"}
          ELSE {})

\* lines 190-196 without the "* 100" of line 193: a fraction, not a percentage
DailyChange_Fraction(current_price, previous_close) ==
  IF IsPositive(previous_close)
    THEN CellDiv(CellSub(current_price, previous_close), previous_close)
    ELSE NumInt(0)

\* lines 190-196
DailyChange(current_price, previous_close) ==
  IF IsPositive(previous_close)
    THEN CellMul(CellDiv(CellSub(current_price, previous_close), previous_close),
                 NumInt(100))
    ELSE NumInt(0)

\* lines 154-196: the summary row of a holding on which the body does not raise
SummaryRow(cols, row, data) ==
  LET symbol == row["Symbol"]
      stock_info == Get(data, symbol.s, EmptyDict)
      price == Get(stock_info, "Current Price", NumInt(0))
      known == SharesKnown(cols, row)
      cost_gbp == Float(row["Cost (£)"])
      mv_gbp == Float(row["Value (£)"])
  IN [k \in SummaryKeys(cols, row) |->
        CASE k = "Symbol" -> symbol
          [] k = "Company Name" -> Get(stock_info, "Company Name", symbol)
          [] k = "Sector" -> Get(stock_info, "Sector", Str(sUnknown))
          [] k = "Current Price" -> price
          [] k = "Currency" -> Get(stock_info, "Currency", NumInt(0))
          [] k = "Previous Close" -> Get(stock_info, "Previous Close", NumInt(0))
          [] k = "Shares" -> IF known THEN Float(row["Shares"]) ELSE NumInt(0)
          [] k = "Market Value" ->
               IF known THEN CellMul(Float(row["Shares"]), price) ELSE NumInt(0)
          [] k = "Cost (£)" -> cost_gbp
          [] k = "Value (£)" -> mv_gbp
          [] k = "P&L (£)" -> Float(row["P&L (£)"])
          [] k = "P&L %" ->
               CellMul(CellDiv(CellSub(mv_gbp, cost_gbp), cost_gbp), NumInt(100))
          [] k = "Weight" ->
               IF WeightDeclared(cols, row) THEN Float(row["Weight"]) ELSE NumInt(0)
          [] OTHER ->
               DailyChange(price, Get(stock_info, "Previous Close", NumInt(0)))]

(***************************************************************************)
(* PortfolioAnalyzer.get_portfolio_summary: the frame.                     *)
(***************************************************************************)
\* pd.DataFrame(summary_data): the columns are the keys of all rows, a key a
\* row lacks is NaN
FrameOf(rowDicts) ==
  LET keys == UNION { DOMAIN rowDicts[i] : i \in 1..Len(rowDicts) }
  IN [cols |-> keys,
      index |-> [i \in 1..Len(rowDicts) |-> i],
      rows |-> [i \in 1..Len(rowDicts) |->
                  [k \in keys |-> Get(rowDicts[i], k, NA)]]]

\* Series.sum(): missing values skipped
RECURSIVE SumSkipNA(_)
SumSkipNA(cells) ==
  IF cells = <<>> THEN RatZero
  ELSE IF IsNA(Head(cells)) THEN SumSkipNA(Tail(cells))
       ELSE RatAdd(Head(cells).q, SumSkipNA(Tail(cells)))

\* lines 203-206 without the else of lines 207-209: no equal-weight fallback
FinalizeWeights_NoFallback(df) ==
  IF "Weight" \in df.cols /\ SumSkipNA(Column(df, "Weight")) = RatZero
    THEN LET total_value == SumSkipNA(Column(df, "Market Value"))
         IN IF RatLess(RatZero, total_value)
              THEN SetColumn(df, "Weight",
                             [i \in 1..NRows(df) |->
                                CellDiv(df.rows[i]["Market Value"], Num(total_value))])
              ELSE df
    ELSE df

\* lines 203-209
FinalizeWeights(df) ==
  IF "Weight" \in df.cols /\ SumSkipNA(Column(df, "Weight")) = RatZero
    THEN LET total_value == SumSkipNA(Column(df, "Market Value"))
         IN IF RatLess(RatZero, total_value)
              THEN SetColumn(df, "Weight",
                             [i \in 1..NRows(df) |->
                                CellDiv(df.rows[i]["Market Value"], Num(total_value))])
              ELSE SetColumn(df, "Weight",
                             [i \in 1..NRows(df) |-> Num(Rat(1, NRows(df)))])
    ELSE df

\* the integer nearest to q, a tie going to the even one
RoundHalfEven(q) ==
  LET f == q.n \div q.d
      twice == 2 * (q.n - f * q.d)
  IN CASE twice < q.d -> f
       [] twice > q.d -> f + 1
       [] OTHER -> IF f % 2 = 0 THEN f ELSE f + 1

\* round(2) on one cell
Round2(c) ==
  IF IsNum(c) THEN Num(Rat(RoundHalfEven(RatMul(c.q, RatInt(100))), 100)) ELSE c

\* df[target] = f(df[source]).round(2) when source is a column
RoundInto(df, source, target, scale) ==
  IF source \in df.cols
    THEN SetColumn(df, target,
                   [i \in 1..NRows(df) |->
                      Round2(CellMul(df.rows[i][source], NumInt(scale)))])
    ELSE df

\* lines 212-225
FormatColumns(df) ==
  LET a == RoundInto(df, "Current Price", "Current Price", 1)
      b == RoundInto(a, "Previous Close", "Previous Close", 1)
      c == RoundInto(b, "Market Value", "Market Value", 1)
      d == RoundInto(c, "Weight", "Weight (%)", 100)
      e == RoundInto(d, "Daily Change (%)", "Daily Change (%)", 1)
      f == RoundInto(e, "P&L %", "P&L %", 1)
  IN RoundInto(f, "P&L (£)", "P&L (£)", 1)

\* the first exception the loop over the holdings raises, or "none"
RECURSIVE FirstRowError(_, _)
FirstRowError(cols, rows) ==
  IF rows = <<>> THEN "none"
  ELSE IF RowError(cols, Head(rows)) # "none" THEN RowError(cols, Head(rows))
       ELSE FirstRowError(cols, Tail(rows))

\* lines 150-231, after the market data was fetched: the frame returned, or
\* None with the exception the except clause reported
Summarize(df, data) ==
  LET e == FirstRowError(df.cols, df.rows)
  IN IF e # "none" THEN [kind |-> "None", error |-> e]
     ELSE [kind |-> "frame",
           df |-> FormatColumns(FinalizeWeights(FrameOf(
                    [i \in 1..NRows(df) |-> SummaryRow(df.cols, df.rows[i], data)])))]

(***************************************************************************)
(* The valuator.                                                           *)
(***************************************************************************)
\* holdings with share counts (known or not); with share counts and a cost
\* that may be 0; with percent weights; with share counts and declared weights
HoldingSchemas ==
  { Extend(Passthrough, [c \in {"Symbol", "Shares"} |->
                           IF c = "Symbol" THEN {Str(sAB), Str(sCD)}
                           ELSE {NumInt(100), NumInt(50), NA}]),
    Extend(Passthrough, [c \in {"Symbol", "quantity", "Invested value"} |->
                           CASE c = "Symbol" -> {Str(sAB), Str(sCD)}
                             [] c = "quantity" -> {NumInt(100)}
                             [] OTHER -> {NumInt(0), NumInt(100)}]),
    Extend(Passthrough, [c \in {"Symbol", "weight"} |->
                           IF c = "Symbol" THEN {Str(sAB), Str(sCD)}
                           ELSE {NumInt(40), NA}]),
    Extend(Passthrough, [c \in {"Symbol", "Shares", "Weight"} |->
                           CASE c = "Symbol" -> {Str(sCD)}
                             [] c = "Shares" -> {NumInt(100), NA}
                             [] OTHER -> {NumInt(0), Num(Rat(1, 2))}]) }

\* the uploads whose analyzers the valuator is run on
HoldingTables == UNION { TablesOf(dom, 0, MaxHoldings) : dom \in HoldingSchemas }

\* the state after PortfolioAnalyzer(input) returned an analyzer (no text cell
\* of these tables is missing, so that either pandas normalizes them alike)
Init ==
  /\ input \in HoldingTables
  /\ na_as_text = TRUE
  /\ Validate(input, na_as_text).error = "none"
  /\ pc = "ready"
  /\ error = "none"
  /\ portfolio_df = Validate(input, na_as_text).df
  /\ revalidations = 0
  /\ ValuatorIdle
  /\ OthersIdle

\* get_portfolio_summary, lines 145-148: fetch_stock_data is entered with the
\* Symbol column
BeginSummary ==
  /\ pc = "ready"
  /\ vpc = "idle"
  /\ vpc' = "fetch"
  /\ symbols' = [i \in 1..NRows(portfolio_df) |-> portfolio_df.rows[i]["Symbol"].s]
  /\ cursor' = 1
  /\ stock_data' = EmptyDict
  /\ UNCHANGED <<otherVars, normalizerVars, warnings, lookups, summary, st_errors>>

InLoop == vpc = "fetch" /\ cursor <= Len(symbols)

\* one pass of the loop, lines 96-110: the lookup answers with a history
FetchData ==
  /\ InLoop
  /\ \E current_price \in ClosePrices(symbols[cursor]),
        info \in TickerInfos(symbols[cursor]) :
       /\ stock_data' = Put(stock_data, symbols[cursor],
                            Fetched(symbols[cursor], current_price, info))
       /\ lookups' = Append(lookups, [kind |-> "data", price |-> current_price,
                                      info |-> info])
  /\ cursor' = cursor + 1
  /\ UNCHANGED <<otherVars, normalizerVars, vpc, symbols, warnings, summary, st_errors>>

\* one pass of the loop, lines 111-121: the history is empty
FetchEmpty ==
  /\ InLoop
  /\ stock_data' = Put(stock_data, symbols[cursor], Placeholder(symbols[cursor]))
  /\ lookups' = Append(lookups, [kind |-> "empty"])
  /\ cursor' = cursor + 1
  /\ UNCHANGED <<otherVars, normalizerVars, vpc, symbols, warnings, summary, st_errors>>

\* lines 123-133 without the except clause: the exception ends the loop
FetchRaises_AbortsBatch ==
  /\ InLoop
  /\ warnings' = Append(warnings, symbols[cursor])
  /\ lookups' = Append(lookups, [kind |-> "exception"])
  /\ cursor' = Len(symbols) + 1
  /\ UNCHANGED <<otherVars, normalizerVars, vpc, symbols, stock_data, summary, st_errors>>

\* one pass of the loop, lines 123-133: the lookup raises
FetchRaises ==
  /\ InLoop
  /\ warnings' = Append(warnings, symbols[cursor])
  /\ stock_data' = Put(stock_data, symbols[cursor], Placeholder(symbols[cursor]))
  /\ lookups' = Append(lookups, [kind |-> "exception"])
  /\ cursor' = cursor + 1
  /\ UNCHANGED <<otherVars, normalizerVars, vpc, symbols, summary, st_errors>>

\* fetch_stock_data returned; lines 150-231
FinishSummary ==
  /\ vpc = "fetch"
  /\ cursor > Len(symbols)
  /\ LET r == Summarize(portfolio_df, stock_data)
     IN /\ summary' = r
        /\ st_errors' = IF r.kind = "None" THEN Append(st_errors, r.error)
                        ELSE st_errors
  /\ vpc' = "done"
  /\ UNCHANGED <<otherVars, normalizerVars, symbols, cursor, stock_data, warnings, lookups>>

Next == BeginSummary \/ FetchData \/ FetchEmpty \/ FetchRaises \/ FinishSummary

Spec == Init /\ [][Next]_vars

(***************************************************************************)
(* technical_indicators: calculate_ema and calculate_macd.                 *)
(*                                                                         *)
(* A price Series is the sequence of its values (numbers or NaN); its      *)
(* index labels are the positions.  The periods are at least 1 (pandas     *)
(* refuses a smaller span).                                                *)
(***************************************************************************)
\* the longest price series
MaxPrices == 4

portfolioVars == <<normalizerVars, valuatorVars>>

\* no portfolio was uploaded
NoPortfolio ==
  /\ input = NoDf
  /\ na_as_text = TRUE
  /\ pc = "new"
  /\ error = "none"
  /\ portfolio_df = NoDf
  /\ revalidations = 0
  /\ ValuatorIdle
  /\ SessionIdle

\* the smoothing factor of ewm(span=period): 2 / (period + 1)
Alpha(period) == Rat(2, period + 1)

\* Series.ewm(span=..., adjust=...).mean() from position i on, given the
\* weighted average so far and the weight old_wt it carries: a missing value
\* keeps the average and decays its weight; before the first value the
\* average is NaN
RECURSIVE EwmFrom(_, _, _, _, _, _)
EwmFrom(vals, alpha, adjust, i, weighted, old_wt) ==
  IF i > Len(vals) THEN <<>>
  ELSE LET cur == vals[i]
           new_wt == IF adjust THEN RatOne ELSE alpha
           decayed == RatMul(old_wt, RatSub(RatOne, alpha))
           w == CASE IsNA(weighted) -> cur
                  [] IsNA(cur) -> weighted
                  [] OTHER ->
                       Num(RatDiv(RatAdd(RatMul(decayed, weighted.q),
                                         RatMul(new_wt, cur.q)),
                                  RatAdd(decayed, new_wt)))
           o == CASE IsNA(weighted) -> old_wt
                  [] IsNA(cur) -> decayed
                  [] OTHER -> IF adjust THEN RatAdd(decayed, new_wt) ELSE RatOne
       IN <<w>> \o EwmFrom(vals, alpha, adjust, i + 1, w, o)

\* Series.ewm(span=period, adjust=adjust).mean()
EwmMean(vals, period, adjust) ==
  IF vals = <<>> THEN <<>>
  ELSE <<vals[1]>> \o EwmFrom(vals, Alpha(period), adjust, 2, vals[1], RatOne)

\* line 16 with pandas' default adjust=True
calculate_ema_Adjusted(series, period) == EwmMean(series, period, TRUE)

\* line 16
calculate_ema(series, period) == EwmMean(series, period, FALSE)

\* a - b on two Series of one index
SeriesSub(a, b) == [i \in 1..Len(a) |-> CellSub(a[i], b[i])]

\* DataFrame.dropna(): the rows with no missing value
DropNa(df) ==
  FilterRows(df, [i \in 1..NRows(df) |-> \A c \in df.cols : ~IsNA(df.rows[i][c])])

MacdNone == [kind |-> "None"]

\* lines 32-63, for periods that are at least 1 and prices that are numbers or
\* NaN (nothing raises)
calculate_macd(p, fast_period, slow_period, signal_period) ==
  IF Len(p) < slow_period THEN MacdNone
  ELSE LET ema_fast == calculate_ema(p, fast_period)
           ema_slow == calculate_ema(p, slow_period)
           macd_line == SeriesSub(ema_fast, ema_slow)
           signal_line == calculate_ema(macd_line, signal_period)
           histogram == SeriesSub(macd_line, signal_line)
           frame == [cols |-> {"MACD", "Signal", "Histogram"},
                     index |-> [i \in 1..Len(p) |-> i],
                     rows |-> [i \in 1..Len(p) |->
                                 [c \in {"MACD", "Signal", "Histogram"} |->
                                    CASE c = "MACD" -> macd_line[i]
                                      [] c = "Signal" -> signal_line[i]
                                      [] OTHER -> histogram[i]]]]
       IN [kind |-> "frame", df |-> DropNa(frame)]

\* the values of a price Series
PriceCells == {NumInt(100), NumInt(200), NA}

PriceSeries == UNION { [1..n -> PriceCells] : n \in 0..MaxPrices }

\* the fast, slow and signal periods of the calls
MacdPeriods ==
  { [fast |-> 1, slow |-> 3, signal |-> 3],
    [fast |-> 1, slow |-> 2, signal |-> 2],
    [fast |-> 2, slow |-> 3, signal |-> 1] }

InitMacd ==
  /\ NoPortfolio
  /\ InterpreterIdle
  /\ RankerIdle
  /\ prices \in PriceSeries
  /\ periods \in MacdPeriods
  /\ macd_df = NoMacd
  /\ signals_df = NoSignals

\* calculate_macd(prices, fast, slow, signal)
CalculateMacd ==
  /\ macd_df = NoMacd
  /\ macd_df' = calculate_macd(prices, periods.fast, periods.slow, periods.signal)
  /\ UNCHANGED <<portfolioVars, sessionVars, interpreterVars, rankerVars, prices,
                 periods, signals_df>>

NextMacd == CalculateMacd

SpecMacd == InitMacd /\ [][NextMacd]_vars

(***************************************************************************)
(* technical_indicators: detect_macd_signals.                              *)
(***************************************************************************)
\* the longest MACD frame
MaxSignalRows == 4

\* a cell of a boolean column
Bool(b) == [t |-> "bool", b |-> b]

\* a > b on two cells: a comparison with NaN is False
CellGt(a, b) == IsNum(a) /\ IsNum(b) /\ RatLess(b.q, a.q)

\* Series.astype(int).diff() of a boolean Series: NaN in the first row
BoolDiff(flags) ==
  [i \in 1..Len(flags) |->
     IF i = 1 THEN NA
     ELSE NumInt((IF flags[i] THEN 1 ELSE 0) - (IF flags[i - 1] THEN 1 ELSE 0))]

\* Series.diff() of a numeric Series
SeriesDiff(a) ==
  [i \in 1..Len(a) |-> IF i = 1 THEN NA ELSE CellSub(a[i], a[i - 1])]

\* line 158 with >= for >
AboveSignal_OrEqual(row) ==
  CellGt(row["MACD"], row["Signal"]) \/ (IsNum(row["MACD"]) /\ row["MACD"] = row["Signal"])

\* line 158: signals_df['MACD'] > signals_df['Signal']
AboveSignal(row) == CellGt(row["MACD"], row["Signal"])

SignalColumns ==
  {"MACD_Above_Signal", "Signal_Change", "Buy_Signal", "Sell_Signal",
   "MACD_Above_Zero", "Zero_Line_Change", "Bullish_Momentum", "Bearish_Momentum",
   "Histogram_Positive", "Histogram_Increasing"}

\* lines 154-185.  An argument that is None or lacks one of the columns read
\* raises inside the try: the except returns the argument as it came
detect_macd_signals(m) ==
  IF m.kind # "frame" THEN m
  ELSE IF ~({"MACD", "Signal", "Histogram"} \subseteq m.df.cols) THEN m
  ELSE
    LET df == m.df
        n == NRows(df)
        above_signal == [i \in 1..n |-> AboveSignal(df.rows[i])]
        signal_change == BoolDiff(above_signal)
        above_zero == [i \in 1..n |-> CellGt(df.rows[i]["MACD"], NumInt(0))]
        zero_line_change == BoolDiff(above_zero)
        histogram_diff == SeriesDiff([i \in 1..n |-> df.rows[i]["Histogram"]])
        Value(i, c) ==
          CASE c = "MACD_Above_Signal" -> Bool(above_signal[i])
            [] c = "Signal_Change" -> signal_change[i]
            [] c = "Buy_Signal" -> Bool(signal_change[i] = NumInt(1))
            [] c = "Sell_Signal" -> Bool(signal_change[i] = NumInt(-1))
            [] c = "MACD_Above_Zero" -> Bool(above_zero[i])
            [] c = "Zero_Line_Change" -> zero_line_change[i]
            [] c = "Bullish_Momentum" -> Bool(zero_line_change[i] = NumInt(1))
            [] c = "Bearish_Momentum" -> Bool(zero_line_change[i] = NumInt(-1))
            [] c = "Histogram_Positive" -> Bool(CellGt(df.rows[i]["Histogram"], NumInt(0)))
            [] c = "Histogram_Increasing" -> Bool(CellGt(histogram_diff[i], NumInt(0)))
            [] OTHER -> df.rows[i][c]
    IN [kind |-> "frame",
        df |-> [cols |-> df.cols \cup SignalColumns,
                index |-> df.index,
                rows |-> [i \in 1..n |->
                            [c \in df.cols \cup SignalColumns |-> Value(i, c)]]]]

\* the MACD and Signal values of the frames
MacdCells == {NumInt(-1), NumInt(1), NA}
SignalCells == {NumInt(0), NumInt(1)}

\* a row of a MACD frame: the histogram is MACD - Signal (line 48)
MacdRow(macd, signal) ==
  [c \in {"MACD", "Signal", "Histogram"} |->
     CASE c = "MACD" -> macd
       [] c = "Signal" -> signal
       [] OTHER -> CellSub(macd, signal)]

\* the arguments of the calls: what calculate_macd can return (None
\* included) and any other frame of MACD, Signal and Histogram
MacdFrames ==
  {MacdNone} \cup
  { [kind |-> "frame",
     df |-> [cols |-> {"MACD", "Signal", "Histogram"},
             index |-> [i \in 1..Len(ms) |-> i],
             rows |-> [i \in 1..Len(ms) |-> MacdRow(ms[i][1], ms[i][2])]]] :
    ms \in UNION { [1..n -> MacdCells \X SignalCells] : n \in 0..MaxSignalRows } }

InitSignals ==
  /\ NoPortfolio
  /\ InterpreterIdle
  /\ RankerIdle
  /\ prices = <<>>
  /\ periods = [fast |-> 12, slow |-> 26, signal |-> 9]
  /\ macd_df \in MacdFrames
  /\ signals_df = NoSignals

\* detect_macd_signals(macd_df)
DetectSignals ==
  /\ signals_df = NoSignals
  /\ signals_df' = detect_macd_signals(macd_df)
  /\ UNCHANGED <<portfolioVars, sessionVars, interpreterVars, rankerVars, prices,
                 periods, macd_df>>

NextSignals == DetectSignals

SpecSignals == InitSignals /\ [][NextSignals]_vars

(***************************************************************************)
(* The Signal Interpreter (specification 4.2; its code, the module         *)
(* ticker_analysis that src/portfolio_analyzer.py imports at line 6, is    *)
(* not among the sources).                                                 *)
(*                                                                         *)
(* The input of one timeframe is a sequence of samples, each with the MACD *)
(* line, the Signal line and the price at one timestamp; Histogram is      *)
(* MACD - Signal (the MACDSeries invariant).  The last sample is the       *)
(* current one; the divergence window is the DivergenceWindow samples      *)
(* before it (20 in the specification; the rules read only the extremes of *)
(* the window, so its length is a bound here).                             *)
(***************************************************************************)
\* samples of the trailing window of the divergence rule
DivergenceWindow == 2

Histogram(in, t) == in[t].macd - in[t].signal

\* rule 1
PositionScore(in) ==
  LET c == in[Len(in)]
  IN CASE c.macd > c.signal /\ c.macd > 0 -> 2
       [] c.macd < c.signal /\ c.macd < 0 -> -2
       [] OTHER -> 0

\* rule 2: latest against previous sample
CrossoverScore(in) ==
  LET c == in[Len(in)]
      p == in[Len(in) - 1]
  IN CASE p.macd < p.signal /\ c.macd > c.signal -> 2
       [] p.macd > p.signal /\ c.macd < c.signal -> -2
       [] OTHER -> 0

\* rule 3
MomentumScore(in) ==
  LET h == Histogram(in, Len(in))
      hp == Histogram(in, Len(in) - 1)
  IN CASE h > hp -> 1
       [] h < hp -> -1
       [] OTHER -> 0

\* the positions of the trailing window
WindowOf(in) == (Len(in) - DivergenceWindow)..(Len(in) - 1)

MaxOf(S) == CHOOSE m \in S : \A x \in S : x <= m
MinOf(S) == CHOOSE m \in S : \A x \in S : m <= x

\* rule 4, bearish check
BearishDivergence(in) ==
  LET c == in[Len(in)]
  IN /\ c.price > MaxOf({ in[t].price : t \in WindowOf(in) })
     /\ ~(c.macd > MaxOf({ in[t].macd : t \in WindowOf(in) }))

\* rule 4, bullish check
BullishDivergence(in) ==
  LET c == in[Len(in)]
  IN /\ c.price < MinOf({ in[t].price : t \in WindowOf(in) })
     /\ ~(c.macd < MinOf({ in[t].macd : t \in WindowOf(in) }))

\* rule 4: the two checks are independent
DivergenceScore(in) ==
  (IF BearishDivergence(in) THEN -2 ELSE 0) + (IF BullishDivergence(in) THEN 2 ELSE 0)

\* the thresholds of the Outlook with >= 2 for Weak Bullish
OutlookOf_WeakFromTwo(score) ==
  CASE ~RatLess(score, RatInt(3)) -> "Strong Bullish"
    [] ~RatLess(score, RatInt(2)) -> "Weak Bullish"
    [] ~RatLess(RatInt(-3), score) -> "Strong Bearish"
    [] ~RatLess(RatInt(-1), score) -> "Weak Bearish"
    [] OTHER -> "Neutral"

\* specification 3, Outlook: score >= 3, >= 1, <= -3, <= -1, else Neutral
OutlookOf(score) ==
  CASE ~RatLess(score, RatInt(3)) -> "Strong Bullish"
    [] ~RatLess(score, RatInt(1)) -> "Weak Bullish"
    [] ~RatLess(RatInt(-3), score) -> "Strong Bearish"
    [] ~RatLess(RatInt(-1), score) -> "Weak Bearish"
    [] OTHER -> "Neutral"

\* the sequences are too short for the rules
Insufficient == [kind |-> "insufficient"]

\* the interpretation of one timeframe: the score accumulated over the four
\* rules, what each rule added, and the Outlook of the score
InterpretTimeframe(in) ==
  IF Len(in) < DivergenceWindow + 1 THEN Insufficient
  ELSE LET rules == [position |-> PositionScore(in),
                     crossover |-> CrossoverScore(in),
                     momentum |-> MomentumScore(in),
                     divergence |-> DivergenceScore(in)]
           score == rules.position + rules.crossover + rules.momentum
                    + rules.divergence
       IN [kind |-> "scored", score |-> score, rules |-> rules,
           outlook |-> OutlookOf(RatInt(score))]

\* confidence = round(((overall_score + 6) / 12) * 100)
ConfidenceOf(overall_score) ==
  RoundHalfEven(RatMul(RatDiv(RatAdd(overall_score, RatInt(6)), RatInt(12)),
                       RatInt(100)))

\* the multi-timeframe reduction: the TickerAnalysis, or no result when a
\* timeframe has none
CombineTimeframes(w, m) ==
  IF w.kind # "scored" \/ m.kind # "scored" THEN Insufficient
  ELSE LET overall_score == Rat(w.score + m.score, 2)
       IN [kind |-> "analysis",
           overall_score |-> overall_score,
           outlook |-> OutlookOf(overall_score),
           confidence |-> ConfidenceOf(overall_score),
           weekly_outlook |-> w.outlook,
           monthly_outlook |-> m.outlook]

\* the samples of the timeframes
Samples == [macd : {-1, 1}, signal : {-2, 2}, price : {1, 2}]

\* the inputs of a timeframe: one sample short of what the rules need, or just
\* long enough
TimeframeInputs ==
  UNION { [1..n -> Samples] : n \in DivergenceWindow..(DivergenceWindow + 1) }

InitInterpreter ==
  /\ NoPortfolio
  /\ IndicatorIdle
  /\ RankerIdle
  /\ InterpreterIdle

\* the weekly timeframe is interpreted
InterpretWeekly ==
  /\ weekly = Unset
  /\ \E in \in TimeframeInputs : weekly' = InterpretTimeframe(in)
  /\ UNCHANGED <<portfolioVars, sessionVars, indicatorVars, rankerVars, monthly, analysis>>

\* the monthly timeframe is interpreted
InterpretMonthly ==
  /\ weekly # Unset
  /\ monthly = Unset
  /\ \E in \in TimeframeInputs : monthly' = InterpretTimeframe(in)
  /\ UNCHANGED <<portfolioVars, sessionVars, indicatorVars, rankerVars, weekly, analysis>>

\* the two timeframes are reduced to the TickerAnalysis
Combine ==
  /\ monthly # Unset
  /\ analysis = Unset
  /\ analysis' = CombineTimeframes(weekly, monthly)
  /\ UNCHANGED <<portfolioVars, sessionVars, indicatorVars, rankerVars, weekly, monthly>>

NextInterpreter == InterpretWeekly \/ InterpretMonthly \/ Combine

SpecInterpreter == InitInterpreter /\ [][NextInterpreter]_vars

(***************************************************************************)
(* The Ticker Ranker (specification 4.3; analyze_tickers of the module     *)
(* ticker_analysis, not among the sources).                                *)
(***************************************************************************)
\* tickers of one ranking
MaxTickers == 3

\* fewer raw price points than this: the ticker is skipped
MinRawPoints == 50

TickerNames == {"AB", "CD", "EF", "GH"}

\* the lists of distinct tickers
TickerLists ==
  { t \in UNION { [1..n -> TickerNames] : n \in 0..MaxTickers } :
      \A i, j \in 1..Len(t) : i # j => t[i] # t[j] }

\* the numbers of raw price points the market-data source answers with
HistoryLengths == {0, MinRawPoints - 1, MinRawPoints}

\* a timeframe on which every rule is bullish, one on which no rule fires, and
\* one that is too short
BullSeries ==
  [t \in 1..(DivergenceWindow + 1) |->
     IF t <= DivergenceWindow
       THEN [macd |-> -1, signal |-> 2, price |-> 2]
       ELSE [macd |-> 1, signal |-> -2, price |-> 1]]

FlatSeries ==
  [t \in 1..(DivergenceWindow + 1) |-> [macd |-> 1, signal |-> 2, price |-> 1]]

ShortSeries ==
  [t \in 1..DivergenceWindow |-> [macd |-> 1, signal |-> 2, price |-> 1]]

\* the weekly and the monthly series of the ranked tickers
WeeklyInputs == {FlatSeries, ShortSeries}
MonthlyInputs == {FlatSeries, BullSeries}

\* the insertion with > for >=: x goes before the entries of its confidence
InsertByConfidence_BeforeEquals(sorted, x) ==
  LET before == { i \in 1..Len(sorted) : sorted[i].confidence > x.confidence }
      k == Cardinality(before)
  IN SubSeq(sorted, 1, k) \o <<x>> \o SubSeq(sorted, k + 1, Len(sorted))

\* x inserted into a list sorted by descending Confidence, after every entry
\* whose Confidence is at least its own
InsertByConfidence(sorted, x) ==
  LET before == { i \in 1..Len(sorted) : sorted[i].confidence >= x.confidence }
      k == Cardinality(before)
  IN SubSeq(sorted, 1, k) \o <<x>> \o SubSeq(sorted, k + 1, Len(sorted))

\* sorted by descending Confidence, ties in first-seen order
RECURSIVE SortByConfidence(_)
SortByConfidence(list) ==
  IF list = <<>> THEN <<>>
  ELSE InsertByConfidence(SortByConfidence(SubSeq(list, 1, Len(list) - 1)),
                          list[Len(list)])

\* the TickerAnalysis tagged with its ticker
Tagged(ticker, a) ==
  [ticker |-> ticker, outlook |-> a.outlook, confidence |-> a.confidence,
   weekly_outlook |-> a.weekly_outlook, monthly_outlook |-> a.monthly_outlook]

InitRanker ==
  /\ NoPortfolio
  /\ IndicatorIdle
  /\ InterpreterIdle
  /\ tickers \in TickerLists
  /\ rcursor = 1
  /\ fetched = <<>>
  /\ results = <<>>
  /\ ranked = Unset

InRanking == ranked = Unset /\ rcursor <= Len(tickers)

\* no data or fewer than MinRawPoints points: the ticker is skipped
SkipTicker ==
  /\ InRanking
  /\ \E n \in HistoryLengths :
       /\ n < MinRawPoints
       /\ fetched' = Append(fetched, [points |-> n, analysis |-> Unset])
  /\ rcursor' = rcursor + 1
  /\ UNCHANGED <<portfolioVars, sessionVars, indicatorVars, interpreterVars, tickers, results, ranked>>

\* enough points: the Signal Interpreter is run, its result collected when
\* it has one
AnalyzeTicker ==
  /\ InRanking
  /\ \E n \in HistoryLengths, w \in WeeklyInputs, m \in MonthlyInputs :
       /\ n >= MinRawPoints
       /\ LET a == CombineTimeframes(InterpretTimeframe(w), InterpretTimeframe(m))
          IN /\ fetched' = Append(fetched, [points |-> n, analysis |-> a])
             /\ results' = IF a.kind = "analysis"
                             THEN Append(results, Tagged(tickers[rcursor], a))
                             ELSE results
  /\ rcursor' = rcursor + 1
  /\ UNCHANGED <<portfolioVars, sessionVars, indicatorVars, interpreterVars, tickers, ranked>>

\* every ticker was handled: the collected analyses are returned sorted
FinishRanking ==
  /\ ranked = Unset
  /\ rcursor > Len(tickers)
  /\ ranked' = [kind |-> "list", list |-> SortByConfidence(results)]
  /\ UNCHANGED <<portfolioVars, sessionVars, indicatorVars, interpreterVars, tickers, rcursor,
                 fetched, results>>

NextRanker == SkipTicker \/ AnalyzeTicker \/ FinishRanking

SpecRanker == InitRanker /\ [][NextRanker]_vars

(***************************************************************************)
(* The dashboard script of app.py, lines 22-59: one action per script run  *)
(* (Streamlit reruns the whole script on every interaction).               *)
(***************************************************************************)
\* script runs of one session
MaxScriptRuns == 3

\* the tables the uploaded files parse to: holdings the analyzer accepts,
\* tables without a symbol column, tables without the cost and value columns
UploadTables ==
  TablesOf(Extend(Passthrough, [c \in {"Symbol", "Shares"} |->
                                  IF c = "Symbol" THEN {Str(sAB), Str(sCD)}
                                  ELSE {NumInt(100), NumInt(50)}]), 1, 1)
  \cup TablesOf(Extend(Passthrough, [c \in {"TICKER"} |-> {Str(sAB), Str(sCD)}]), 1, 1)
  \cup TablesOf([c \in {"Symbol"} |-> {Str(sAB), Str(sCD)}], 1, 1)

\* lines 23-26 on a new session
InitSession ==
  /\ input = NoDf
  /\ na_as_text \in BOOLEAN
  /\ pc = "new"
  /\ error = "none"
  /\ portfolio_df = NoDf
  /\ revalidations = 0
  /\ ValuatorIdle
  /\ IndicatorIdle
  /\ InterpreterIdle
  /\ RankerIdle
  /\ SessionIdle

\* line 59: the main content is rendered
MainContent(portfolio_data, analyzer) == portfolio_data # None /\ analyzer # None

CanRun == script_runs < MaxScriptRuns

\* a run with no file in the uploader (line 37 is false)
RunWithoutUpload ==
  /\ CanRun
  /\ sidebar' = "uploader"
  /\ main_rendered' = MainContent(session_portfolio_data, session_analyzer)
  /\ script_runs' = script_runs + 1
  /\ UNCHANGED <<portfolioVars, indicatorVars, interpreterVars, rankerVars,
                 session_portfolio_data, session_analyzer>>

\* a run whose file cannot be read: lines 40-43 raise, line 54 catches
RunUnreadableUpload ==
  /\ CanRun
  /\ sidebar' = "error"
  /\ main_rendered' = MainContent(session_portfolio_data, session_analyzer)
  /\ script_runs' = script_runs + 1
  /\ UNCHANGED <<portfolioVars, indicatorVars, interpreterVars, rankerVars,
                 session_portfolio_data, session_analyzer>>

\* a run whose file parses to a table the analyzer accepts: lines 45-46
RunAcceptedUpload ==
  /\ CanRun
  /\ \E df \in UploadTables :
       LET r == Validate(df, na_as_text)
       IN /\ r.error = "none"
          /\ session_portfolio_data' = df
          /\ session_analyzer' = [kind |-> "analyzer", source |-> df,
                                  portfolio_df |-> r.df]
  /\ sidebar' = "success"
  /\ main_rendered' = MainContent(session_portfolio_data', session_analyzer')
  /\ script_runs' = script_runs + 1
  /\ UNCHANGED <<portfolioVars, indicatorVars, interpreterVars, rankerVars>>

\* a run whose file parses to a table on which PortfolioAnalyzer(df) raises:
\* line 45 has stored the table, line 46 stores nothing, line 54 catches
RunRejectedUpload ==
  /\ CanRun
  /\ \E df \in UploadTables :
       /\ Validate(df, na_as_text).error # "none"
       /\ session_portfolio_data' = df
  /\ sidebar' = "error"
  /\ main_rendered' = MainContent(session_portfolio_data', session_analyzer)
  /\ script_runs' = script_runs + 1
  /\ UNCHANGED <<portfolioVars, indicatorVars, interpreterVars, rankerVars,
                 session_analyzer>>

NextSession ==
  RunWithoutUpload \/ RunUnreadableUpload \/ RunAcceptedUpload \/ RunRejectedUpload

SpecSession == InitSession /\ [][NextSession]_vars

(***************************************************************************)
(* Vocabulary of the claims about the normalizer.                          *)
(***************************************************************************)
Range(seq) == { seq[i] : i \in 1..Len(seq) }

\* the names under which the code looks for the symbol column
SymbolNames == {"Symbol"} \cup Range(symbol_columns)

HasSymbolColumn(t) == t.cols \cap SymbolNames # {}

\* the cell the symbol of row i of table t is read from
SymbolSourceCell(t, i) ==
  IF "Symbol" \in t.cols THEN t.rows[i]["Symbol"]
  ELSE t.rows[i][symbol_columns[FirstPresent(symbol_columns, t.cols)]]

\* null, empty or whitespace-only
BlankOrNull(c) == IsNA(c) \/ (IsStr(c) /\ StrStrip(c.s) = <<>>)

\* the index labels of the rows of df
IndexSet(df) == Range(df.index)

\* the label contains "total" or "summary" in some mix of upper and lower case
IsSummaryAnyCase(c) ==
  /\ IsStr(c)
  /\ \/ StrContains(StrUpper(c.s), <<"T","O","T","A","L">>)
     \/ StrContains(StrUpper(c.s), <<"S","U","M","M","A","R","Y">>)

HasAny(names, t) == Range(names) \cap t.cols # {}

\* the column the weights of table t come from; "" when they come from none
WeightSource(t) ==
  CASE "Weight" \in t.cols -> "Weight"
    [] "Shares" \notin t.cols /\ ~HasAny(shares_columns, t) /\ HasAny(weight_columns, t) ->
         weight_columns[FirstPresent(weight_columns, t.cols)]
    [] OTHER -> ""

\* neither a shares-like nor a weight-like column
NoQuantityColumn(t) ==
  /\ {"Shares", "Weight"} \cap t.cols = {}
  /\ ~HasAny(shares_columns, t)
  /\ ~HasAny(weight_columns, t)

RECURSIVE SumNums(_)
SumNums(cells) ==
  IF cells = <<>> THEN RatZero ELSE RatAdd(Head(cells).q, SumNums(Tail(cells)))

\* Symbol trimmed, upper-cased and non-empty in every row, Shares or Weight
\* present, no total/summary row
IsCanonical(t) ==
  /\ "Symbol" \in t.cols
  /\ {"Shares", "Weight"} \cap t.cols # {}
  /\ \A i \in 1..NRows(t) :
       LET c == t.rows[i]["Symbol"]
       IN IsStr(c) /\ c.s # <<>> /\ StrStrip(c.s) = c.s /\ StrUpper(c.s) = c.s
  /\ "Slice" \in t.cols => \A i \in 1..NRows(t) : ~IsSummaryAnyCase(t.rows[i]["Slice"])

(***************************************************************************)
(* C1.  The constructor fails with the "No symbol column found" ValueError *)
(* and leaves no analyzer exactly when the table has neither a Symbol      *)
(* column nor a column of the alias list; with Symbol or an alias present  *)
(* it never fails for lack of a symbol column.                             *)
(***************************************************************************)
C1_MissingSymbolFailsExactly ==
  pc # "new" =>
    ( (pc = "failed" /\ error = "ValueError" /\ portfolio_df = NoDf)
      <=> ~HasSymbolColumn(input) )

\* a table with rows and with columns, none of them a symbol column, was refused
C1_Witness ==
  /\ pc = "failed"
  /\ error = "ValueError"
  /\ "TICKER" \in input.cols
  /\ NRows(input) > 0

(***************************************************************************)
(* C2.  A table with a resolvable symbol column normalizes without error   *)
(* whatever optional columns are absent.                                   *)
(***************************************************************************)
C2_OptionalColumnsNeverAbort ==
  (pc # "new" /\ HasSymbolColumn(input)) => (pc = "ready" /\ error = "none")

(***************************************************************************)
(* C3.  Every row of the normalized table has a non-empty, trimmed and     *)
(* upper-cased Symbol, and no input row whose symbol is null, empty or     *)
(* whitespace-only is in the output.                                       *)
(***************************************************************************)
C3_NoBlankOrNullSymbolSurvives ==
  pc = "ready" =>
    /\ \A k \in 1..NRows(portfolio_df) :
         LET c == portfolio_df.rows[k]["Symbol"]
         IN IsStr(c) /\ c.s # <<>> /\ StrStrip(c.s) = c.s /\ StrUpper(c.s) = c.s
    /\ \A i \in 1..NRows(input) :
         BlankOrNull(SymbolSourceCell(input, i)) => i \notin IndexSet(portfolio_df)

(***************************************************************************)
(* C4.  With a Slice column, every row whose Slice contains "total" or     *)
(* "summary" in any mix of case is excluded, and the step excludes no      *)
(* other row (a row without the substring is dropped only for its symbol). *)
(***************************************************************************)
C4_SummaryRowsExcludedAnyCase ==
  (pc = "ready" /\ "Slice" \in input.cols) =>
    \A i \in 1..NRows(input) :
      IF IsSummaryAnyCase(input.rows[i]["Slice"])
        THEN i \notin IndexSet(portfolio_df)
        ELSE ~BlankOrNull(SymbolSourceCell(input, i)) => i \in IndexSet(portfolio_df)

(***************************************************************************)
(* C5.  When the weights come from a weight-like column (Weight or an      *)
(* alias) whose largest value is above 1, every normalized Weight is the   *)
(* input value / 100; when the largest is at most 1 they are unchanged.    *)
(***************************************************************************)
C5_PercentWeightsRescaled ==
  (pc = "ready" /\ WeightSource(input) # "") =>
    LET w(i) == ToNumeric(input.rows[i][WeightSource(input)])
        percent == \E i \in 1..NRows(input) : IsNum(w(i)) /\ RatLess(RatOne, w(i).q)
    IN \A k \in 1..NRows(portfolio_df) :
         LET i == portfolio_df.index[k]
         IN portfolio_df.rows[k]["Weight"] =
              IF IsNum(w(i)) /\ percent
                THEN Num(RatDiv(w(i).q, RatInt(100)))
                ELSE w(i)

(***************************************************************************)
(* C6.  Without a shares-like and without a weight-like column every       *)
(* holding of the output has Weight 1/N, N the number of holdings of the   *)
(* output, so the weights of a non-empty output sum to 1.                  *)
(***************************************************************************)
C6_EqualWeightsSumToOne ==
  (pc = "ready" /\ NoQuantityColumn(input)) =>
    /\ \A k \in 1..NRows(portfolio_df) :
         portfolio_df.rows[k]["Weight"] = Num(Rat(1, NRows(portfolio_df)))
    /\ NRows(portfolio_df) > 0 => SumNums(Column(portfolio_df, "Weight")) = RatOne

(***************************************************************************)
(* C7.  Normalizing an already canonical table succeeds and returns the    *)
(* same rows with the same Symbol, Shares and Weight.                      *)
(***************************************************************************)
C7_CanonicalTableIsFixedPoint ==
  (pc # "new" /\ IsCanonical(input)) =>
    /\ pc = "ready"
    /\ error = "none"
    /\ portfolio_df.index = input.index
    /\ \A i \in 1..NRows(input) :
         \A c \in {"Symbol", "Shares", "Weight"} \cap input.cols :
           portfolio_df.rows[i][c] = input.rows[i][c]

\* C7, second form: on the result of a successful normalization the normalizer
\* changes nothing and raises nothing
C7_RenormalizingChangesNothing ==
  [][revalidations' # revalidations =>
       (portfolio_df' = portfolio_df /\ error' = "none")]_vars

(***************************************************************************)
(* Vocabulary of the claims about the valuator.                            *)
(***************************************************************************)
\* the position of the last lookup so far of symbol s
LastLookup(s) ==
  CHOOSE i \in 1..Len(lookups) :
    symbols[i] = s /\ \A j \in (i + 1)..Len(lookups) : symbols[j] # s

\* the lookup found nothing usable: an exception or an empty history
NoData(lookup) == lookup.kind \in {"empty", "exception"}

\* the zero/"Unknown" entry of symbol s
IsZeroUnknown(entry, s) ==
  /\ DOMAIN entry = StockKeys
  /\ entry["Current Price"] = NumInt(0)
  /\ entry["Previous Close"] = NumInt(0)
  /\ entry["Market Cap"] = NumInt(0)
  /\ entry["Company Name"] = Str(s)
  /\ entry["Sector"] = Str(sUnknown)
  /\ entry["Industry"] = Str(sUnknown)
  /\ entry["Currency"] = Str(sUnknown)

FetchReturned == vpc = "done" \/ (vpc = "fetch" /\ cursor > Len(symbols))

(***************************************************************************)
(* C8.  fetch_stock_data looks every requested symbol up, whatever the     *)
(* earlier lookups ended with, and returns an entry for every symbol: the  *)
(* zero/"Unknown" placeholder when the symbol's (last) lookup failed,      *)
(* and otherwise the entry made of that lookup's own answer alone.         *)
(***************************************************************************)
C8_FailuresAreIsolated ==
  /\ vpc # "idle" => Len(lookups) = cursor - 1
  /\ FetchReturned =>
       /\ Len(lookups) = Len(symbols)
       /\ DOMAIN stock_data = Range(symbols)
       /\ \A s \in Range(symbols) :
            LET o == lookups[LastLookup(s)]
            IN IF NoData(o) THEN IsZeroUnknown(stock_data[s], s)
               ELSE stock_data[s] = Fetched(s, o.price, o.info)

\* a batch whose first lookup raised and whose second, of another symbol,
\* answered with data
C8_Witness ==
  /\ FetchReturned
  /\ Len(symbols) >= 2
  /\ symbols[1] # symbols[2]
  /\ lookups[1].kind = "exception"
  /\ lookups[2].kind = "data"

(***************************************************************************)
(* C9.  Every lookup that yields no usable data (an exception or an empty  *)
(* history) leaves a warning for its ticker.                               *)
(***************************************************************************)
C9_EveryPlaceholderIsWarned ==
  \A i \in 1..Len(lookups) : NoData(lookups[i]) => symbols[i] \in Range(warnings)

(***************************************************************************)
(* C10.  A holding whose cost is 0 does not fail the valuation with a      *)
(* division by zero: get_portfolio_summary returns one row per holding.    *)
(***************************************************************************)
C10_ZeroCostNeverFailsSummary ==
  (/\ vpc = "done"
   /\ \E k \in 1..NRows(portfolio_df) : IsZero(portfolio_df.rows[k]["Cost (£)"]))
  => /\ "ZeroDivisionError" \notin Range(st_errors)
     /\ summary.kind = "frame"
     /\ NRows(summary.df) = NRows(portfolio_df)

(***************************************************************************)
(* Vocabulary of the claims about the summary rows.                        *)
(***************************************************************************)
\* get_portfolio_summary returned a frame
SummaryReturned == vpc = "done" /\ summary.kind = "frame"

\* the entry the market-data source gave for holding k
HoldingInfo(k) == stock_data[portfolio_df.rows[k]["Symbol"].s]

\* holding k has a non-null Shares
HasShares(k) ==
  "Shares" \in portfolio_df.cols /\ ~IsNA(portfolio_df.rows[k]["Shares"])

\* the weight holding k declares, 0 if it declares none
DeclaredWeight(k) ==
  IF "Weight" \in portfolio_df.cols /\ ~IsNA(portfolio_df.rows[k]["Weight"])
    THEN ToNumeric(portfolio_df.rows[k]["Weight"])
    ELSE NumInt(0)

\* Shares x Current Price of holding k, 0 when its Shares is unknown
ExactMarketValue(k) ==
  IF HasShares(k)
    THEN Num(RatMul(ToNumeric(portfolio_df.rows[k]["Shares"]).q,
                    HoldingInfo(k)["Current Price"].q))
    ELSE NumInt(0)

\* (Current Price - Previous Close) / Previous Close x 100 of holding k, 0 when
\* its Previous Close is not above 0
ExactDailyChange(k) ==
  LET cp == HoldingInfo(k)["Current Price"].q
      pc0 == HoldingInfo(k)["Previous Close"].q
  IN IF RatLess(RatZero, pc0)
       THEN Num(RatMul(RatDiv(RatSub(cp, pc0), pc0), RatInt(100)))
       ELSE NumInt(0)

\* q rounded to two decimals (ties to even)
ToCents(c) == Num(Rat(RoundHalfEven(RatMul(c.q, RatInt(100))), 100))

(***************************************************************************)
(* C11.  Weight finalization: when the declared weights of all rows sum to *)
(* 0, each row's Weight is its market value / the total market value if    *)
(* the total is above 0 and 1/N otherwise, and the final weights sum to 1; *)
(* when the declared weights do not sum to 0 they are left as declared.    *)
(***************************************************************************)
C11_WeightsFinalized ==
  (SummaryReturned /\ NRows(summary.df) > 0) =>
    LET n == NRows(portfolio_df)
        declared == [k \in 1..n |-> DeclaredWeight(k)]
        mv == [k \in 1..n |-> ExactMarketValue(k)]
        total == SumNums(mv)
        w == Column(summary.df, "Weight")
    IN IF SumNums(declared) = RatZero
         THEN /\ \A k \in 1..n :
                   w[k] = IF RatLess(RatZero, total)
                            THEN Num(RatDiv(mv[k].q, total))
                            ELSE Num(Rat(1, n))
              /\ SumNums(w) = RatOne
         ELSE w = declared

\* 100 shares at 150 and 50 shares at 300: market values 15000 and 15000,
\* weights 0.5 and 0.5
C11_Witness ==
  /\ SummaryReturned
  /\ NRows(portfolio_df) = 2
  /\ "Weight" \notin portfolio_df.cols
  /\ Column(portfolio_df, "Shares") = <<NumInt(100), NumInt(50)>>
  /\ Column(summary.df, "Current Price") = <<NumInt(150), NumInt(300)>>
  /\ Column(summary.df, "Market Value") = <<NumInt(15000), NumInt(15000)>>
  /\ Column(summary.df, "Weight") = <<Num(Rat(1, 2)), Num(Rat(1, 2))>>

(***************************************************************************)
(* C12.  For every summary row, Market Value equals Shares x Current Price *)
(* when the holding's Shares is known and 0 when it is unknown (as stated: *)
(* the exact product).                                                     *)
(***************************************************************************)
C12_MarketValueIsExactProduct ==
  SummaryReturned =>
    \A k \in 1..NRows(summary.df) :
      summary.df.rows[k]["Market Value"] = ExactMarketValue(k)

(***************************************************************************)
(* C12, amended.  For every summary row, Market Value equals Shares x the  *)
(* fetched Current Price rounded to two decimals when the holding's Shares *)
(* is known and 0 when it is unknown; a placeholder price gives 0.         *)
(***************************************************************************)
C12_MarketValueIsRoundedProduct ==
  SummaryReturned =>
    \A k \in 1..NRows(summary.df) :
      /\ summary.df.rows[k]["Market Value"] = ToCents(ExactMarketValue(k))
      /\ ~HasShares(k) => summary.df.rows[k]["Market Value"] = NumInt(0)
      /\ HoldingInfo(k)["Current Price"] = NumInt(0) =>
            summary.df.rows[k]["Market Value"] = NumInt(0)

\* 50 shares at 0.0625: the product 3.125 is reported as 3.12
C12_Witness ==
  /\ SummaryReturned
  /\ \E k \in 1..NRows(summary.df) :
       /\ HasShares(k)
       /\ ExactMarketValue(k) = Num(Rat(25, 8))
       /\ summary.df.rows[k]["Market Value"] = Num(Rat(78, 25))

(***************************************************************************)
(* C13.  For every summary row, Daily Change % equals (Current Price -     *)
(* Previous Close) / Previous Close x 100 when Previous Close > 0 and 0    *)
(* when Previous Close <= 0 (as stated: the exact quotient).               *)
(***************************************************************************)
C13_DailyChangeIsExactQuotient ==
  SummaryReturned =>
    \A k \in 1..NRows(summary.df) :
      summary.df.rows[k]["Daily Change (%)"] = ExactDailyChange(k)

(***************************************************************************)
(* C13, amended.  For every summary row, Daily Change % equals (Current    *)
(* Price - Previous Close) / Previous Close x 100 of the fetched prices,   *)
(* rounded to two decimals, when Previous Close > 0, and 0 when Previous   *)
(* Close <= 0 (placeholder rows included): no summary fails for a division *)
(* by a zero Previous Close.                                               *)
(***************************************************************************)
C13_DailyChangeIsRoundedQuotient ==
  /\ SummaryReturned =>
       \A k \in 1..NRows(summary.df) :
         /\ summary.df.rows[k]["Daily Change (%)"] = ToCents(ExactDailyChange(k))
         /\ ~RatLess(RatZero, HoldingInfo(k)["Previous Close"].q) =>
               summary.df.rows[k]["Daily Change (%)"] = NumInt(0)
  /\ (vpc = "done" /\ summary.kind = "None") =>
       \E k \in 1..NRows(portfolio_df) :
         HasShares(k) /\ IsZero(ToNumeric(portfolio_df.rows[k]["Cost (£)"]))

\* a close of 0.0625 after a previous close of 100: -99.9375 is reported as
\* -99.94; in the same summary or another, a fetched previous close of 0 with a
\* price above 0 is reported as 0
C13_Witness ==
  /\ SummaryReturned
  /\ \E k \in 1..NRows(summary.df) :
       /\ HoldingInfo(k)["Previous Close"] = NumInt(100)
       /\ ExactDailyChange(k) = Num(Rat(-1599, 16))
       /\ summary.df.rows[k]["Daily Change (%)"] = Num(Rat(-4997, 50))

(***************************************************************************)
(* Vocabulary of the claims about calculate_macd.                          *)
(***************************************************************************)
MacdReturned == macd_df # NoMacd

\* the recursive EMA as the specification words it: ema[0] = series[0],
\* ema[t] = ema[t-1] + alpha (series[t] - ema[t-1]); NaN in, NaN out
RECURSIVE RecursiveEma(_, _)
RecursiveEma(series, period) ==
  IF Len(series) <= 1 THEN series
  ELSE LET before == RecursiveEma(SubSeq(series, 1, Len(series) - 1), period)
           last == before[Len(before)]
           x == series[Len(series)]
       IN Append(before,
                 IF IsNA(last) \/ IsNA(x) THEN NA
                 ELSE Num(RatAdd(last.q, RatMul(Alpha(period), RatSub(x.q, last.q)))))

\* the position of the first price that is a number; 0 if there is none
FirstValid(series) ==
  IF \E i \in 1..Len(series) : IsNum(series[i])
    THEN CHOOSE i \in 1..Len(series) :
           IsNum(series[i]) /\ \A j \in 1..(i - 1) : IsNA(series[j])
    ELSE 0

\* no price is missing from the first number on
GapFree(series) ==
  FirstValid(series) # 0 /\ \A i \in FirstValid(series)..Len(series) : IsNum(series[i])

(***************************************************************************)
(* C14.  calculate_macd returns None for every price series shorter than   *)
(* slow_period; for every series of length >= slow_period it returns a     *)
(* frame of MACD, Signal and Histogram over one index, of non-zero length. *)
(***************************************************************************)
C14_NoneOrNonEmptyFrame ==
  MacdReturned =>
    IF Len(prices) < periods.slow
      THEN macd_df = MacdNone
      ELSE /\ macd_df.kind = "frame"
           /\ macd_df.df.cols = {"MACD", "Signal", "Histogram"}
           /\ Len(macd_df.df.index) = NRows(macd_df.df)
           /\ NRows(macd_df.df) > 0

(***************************************************************************)
(* C15.  For every price series of length >= slow_period and every         *)
(* retained timestamp t: MACD[t] = EMA_fast[t] - EMA_slow[t], Signal is    *)
(* the EMA of the MACD line and Histogram[t] = MACD[t] - Signal[t], EMA    *)
(* being the recursive form that starts with ema[0] = series[0] (as        *)
(* stated).                                                                *)
(***************************************************************************)
C15_MacdIsRecursiveEmaFromFirstPrice ==
  (MacdReturned /\ Len(prices) >= periods.slow) =>
    LET macd_line == SeriesSub(RecursiveEma(prices, periods.fast),
                               RecursiveEma(prices, periods.slow))
        signal_line == RecursiveEma(macd_line, periods.signal)
    IN \A k \in 1..NRows(macd_df.df) :
         LET t == macd_df.df.index[k]
             row == macd_df.df.rows[k]
         IN /\ row["MACD"] = macd_line[t]
            /\ row["Signal"] = signal_line[t]
            /\ row["Histogram"] = CellSub(row["MACD"], row["Signal"])

(***************************************************************************)
(* C15, amended.  For every price series of length >= slow_period and      *)
(* every retained timestamp t, Histogram[t] = MACD[t] - Signal[t]; the     *)
(* retained timestamps are those from the first non-missing price on; and  *)
(* when no price is missing after the first non-missing one, MACD[t] =     *)
(* EMA_fast[t] - EMA_slow[t] and Signal is the EMA of the MACD line, EMA   *)
(* being the recursive form started at the first non-missing value.        *)
(***************************************************************************)
C15_MacdIsRecursiveEmaFromFirstValid ==
  (MacdReturned /\ Len(prices) >= periods.slow) =>
    LET f == FirstValid(prices)
        tail == IF f = 0 THEN <<>> ELSE SubSeq(prices, f, Len(prices))
        macd_line == SeriesSub(RecursiveEma(tail, periods.fast),
                               RecursiveEma(tail, periods.slow))
        signal_line == RecursiveEma(macd_line, periods.signal)
    IN /\ macd_df.kind = "frame"
       /\ macd_df.df.index = [k \in 1..Len(tail) |-> f + k - 1]
       /\ \A k \in 1..NRows(macd_df.df) :
            LET row == macd_df.df.rows[k]
            IN /\ IsNum(row["MACD"]) /\ IsNum(row["Signal"])
               /\ row["Histogram"] = Num(RatSub(row["MACD"].q, row["Signal"].q))
               /\ GapFree(prices) =>
                     /\ row["MACD"] = macd_line[k]
                     /\ row["Signal"] = signal_line[k]

\* a series that starts with a missing price and has none after it, long
\* enough for a MACD that is not 0 and differs from its signal line
C15_Witness ==
  /\ MacdReturned
  /\ Len(prices) >= periods.slow
  /\ IsNA(prices[1])
  /\ GapFree(prices)
  /\ \E k \in 1..NRows(macd_df.df) :
       /\ macd_df.df.rows[k]["MACD"] # NumInt(0)
       /\ macd_df.df.rows[k]["Histogram"] # NumInt(0)

(***************************************************************************)
(* Vocabulary of the claims about the Signal Interpreter.                  *)
(***************************************************************************)
Outlooks ==
  <<"Strong Bearish", "Weak Bearish", "Neutral", "Weak Bullish", "Strong Bullish">>

\* the place of an outlook in the order Strong Bearish < ... < Strong Bullish;
\* 0 for anything else
OutlookRank(o) ==
  IF \E i \in 1..5 : Outlooks[i] = o THEN CHOOSE i \in 1..5 : Outlooks[i] = o ELSE 0

\* the scored results of the state, each with its score as a fraction
ScoredResults ==
  { [score |-> RatInt(r.score), outlook |-> r.outlook] :
      r \in { x \in {weekly, monthly} : x.kind = "scored" } }
  \cup (IF analysis.kind = "analysis"
         THEN {[score |-> analysis.overall_score, outlook |-> analysis.outlook]}
         ELSE {})

\* the outlook the thresholds give to a score, read off the claim
ThresholdOutlook(score) ==
  IF ~RatLess(score, RatInt(3)) THEN "Strong Bullish"
  ELSE IF ~RatLess(score, RatOne) THEN "Weak Bullish"
  ELSE IF ~RatLess(RatInt(-3), score) THEN "Strong Bearish"
  ELSE IF ~RatLess(RatInt(-1), score) THEN "Weak Bearish"
  ELSE "Neutral"

(***************************************************************************)
(* C16.  Whatever the four rules add, each per-timeframe score lies within *)
(* -6..+6, so the averaged weekly+monthly score lies within -6..+6 and     *)
(* Confidence is an integer in 0..100.                                     *)
(***************************************************************************)
C16_ScoreWithinSixConfidenceWithinHundred ==
  /\ \A r \in {weekly, monthly} :
       r.kind = "scored" => (r.score >= -6 /\ r.score <= 6)
  /\ analysis.kind = "analysis" =>
       /\ ~RatLess(analysis.overall_score, RatInt(-6))
       /\ ~RatLess(RatInt(6), analysis.overall_score)
       /\ analysis.confidence \in 0..100

(***************************************************************************)
(* C17.  The score-to-Outlook mapping is total and deterministic: every    *)
(* score, the half-integer averages included, has the one outlook the      *)
(* thresholds >= 3, >= 1, <= -3, <= -1, else Neutral give it; and it is    *)
(* monotonic: of two scores the higher never has the more bearish outlook. *)
(***************************************************************************)
C17_OutlookTotalAndMonotonic ==
  /\ \A r \in ScoredResults :
       /\ OutlookRank(r.outlook) # 0
       /\ r.outlook = ThresholdOutlook(r.score)
  /\ \A a, b \in ScoredResults :
       ~RatLess(b.score, a.score) => OutlookRank(a.outlook) <= OutlookRank(b.outlook)

\* a half-integer average between two timeframe scores with different
\* outlooks: weekly 1 (Weak Bullish), monthly 0 (Neutral), overall 0.5 (Neutral)
C17_Witness ==
  /\ analysis.kind = "analysis"
  /\ weekly.score = 1
  /\ monthly.score = 0
  /\ analysis.overall_score = Rat(1, 2)
  /\ weekly.outlook = "Weak Bullish"
  /\ analysis.outlook = "Neutral"

(***************************************************************************)
(* Vocabulary of the claims about the Ticker Ranker.                       *)
(***************************************************************************)
\* ticker i had data with enough points and a successful interpretation
Qualifies(i) ==
  fetched[i].points >= MinRawPoints /\ fetched[i].analysis.kind = "analysis"

\* the position of ticker t in the input
InputPosition(t) == CHOOSE i \in 1..Len(tickers) : tickers[i] = t

(***************************************************************************)
(* C18.  The ranker handles every ticker and returns exactly the tickers   *)
(* that have at least 50 points and a successful interpretation, each once *)
(* with its own analysis, ordered by Confidence descending, tickers of     *)
(* equal Confidence in their input order; a ticker without data or with    *)
(* too short a history is skipped, and the list is empty when no ticker    *)
(* qualifies.                                                              *)
(***************************************************************************)
C18_RankedByConfidenceStable ==
  ranked # Unset =>
    LET out == ranked.list
    IN /\ Len(fetched) = Len(tickers)
       /\ { out[k].ticker : k \in 1..Len(out) } =
            { tickers[i] : i \in { j \in 1..Len(tickers) : Qualifies(j) } }
       /\ Len(out) = Cardinality({ j \in 1..Len(tickers) : Qualifies(j) })
       /\ \A k \in 1..Len(out) :
            LET a == fetched[InputPosition(out[k].ticker)].analysis
            IN out[k].confidence = a.confidence /\ out[k].outlook = a.outlook
       /\ \A k, l \in 1..Len(out) :
            k < l =>
              /\ out[k].confidence >= out[l].confidence
              /\ out[k].confidence = out[l].confidence =>
                    InputPosition(out[k].ticker) < InputPosition(out[l].ticker)
       /\ (\A j \in 1..Len(tickers) : ~Qualifies(j)) => out = <<>>

\* three qualifying tickers, the second with the highest Confidence and the
\* first and third with equal Confidence: returned second, first, third
C18_Witness ==
  /\ ranked # Unset
  /\ Len(tickers) = 3
  /\ Len(ranked.list) = 3
  /\ ranked.list[1].ticker = tickers[2]
  /\ ranked.list[2].ticker = tickers[1]
  /\ ranked.list[3].ticker = tickers[3]
  /\ ranked.list[1].confidence > ranked.list[2].confidence
  /\ ranked.list[2].confidence = ranked.list[3].confidence

(***************************************************************************)
(* C19.  Whenever the table has a shares-like column (Shares or an alias), *)
(* the normalized holdings carry a numeric Shares taken from it, a         *)
(* non-numeric value becoming null without its row being dropped, also     *)
(* when a weight-like column is present; no Weight is then derived from a  *)
(* weight alias.                                                           *)
(***************************************************************************)
\* the shares-like column of table t: Shares, else the first alias present
SharesSource(t) ==
  IF "Shares" \in t.cols THEN "Shares"
  ELSE shares_columns[FirstPresent(shares_columns, t.cols)]

HasSharesLike(t) == "Shares" \in t.cols \/ HasAny(shares_columns, t)

C19_SharesPreferredOverWeight ==
  (pc = "ready" /\ HasSharesLike(input)) =>
    /\ "Shares" \in portfolio_df.cols
    /\ \A k \in 1..NRows(portfolio_df) :
         portfolio_df.rows[k]["Shares"] =
           ToNumeric(input.rows[portfolio_df.index[k]][SharesSource(input)])
    /\ "Weight" \notin input.cols => "Weight" \notin portfolio_df.cols
    /\ "Slice" \notin input.cols =>
         \A i \in 1..NRows(input) :
           (IsNA(ToNumeric(input.rows[i][SharesSource(input)]))
            /\ ~BlankOrNull(SymbolSourceCell(input, i)))
           => i \in IndexSet(portfolio_df)

(***************************************************************************)
(* C20.  Whenever the main content is rendered, the stored analyzer was    *)
(* constructed from the stored portfolio_data: a failed upload never       *)
(* leaves a new portfolio_data next to the analyzer of an earlier upload.  *)
(***************************************************************************)
C20_AnalyzerMatchesPortfolioData ==
  main_rendered => session_analyzer.source = session_portfolio_data

(***************************************************************************)
(* Vocabulary of the claims about detect_macd_signals.                     *)
(***************************************************************************)
\* detect_macd_signals returned the signals of a MACD frame
SignalsReturned == signals_df # NoSignals /\ macd_df.kind = "frame"

SignalRows == 1..NRows(macd_df.df)

\* MACD > Signal in row t of the argument, as numbers: false when either
\* is missing
MacdOverSignal(t) ==
  LET row == macd_df.df.rows[t]
  IN /\ row["MACD"] # NA
     /\ row["Signal"] # NA
     /\ row["MACD"].q.n * row["Signal"].q.d > row["Signal"].q.n * row["MACD"].q.d

BuyAt(t) == signals_df.df.rows[t]["Buy_Signal"] = Bool(TRUE)
SellAt(t) == signals_df.df.rows[t]["Sell_Signal"] = Bool(TRUE)

(***************************************************************************)
(* C21.  In the output of detect_macd_signals over a MACD frame:           *)
(* Buy_Signal is true at t exactly when MACD > Signal at t and not at t-1, *)
(* Sell_Signal is true at t exactly when MACD > Signal at t-1 and not at   *)
(* t, the first row is neither, no row is both, and buy and sell signals   *)
(* strictly alternate: between two buy signals there is a sell signal and  *)
(* between two sell signals a buy signal.                                  *)
(***************************************************************************)
C21_CrossoversAlternate ==
  SignalsReturned =>
    /\ signals_df.kind = "frame"
    /\ NRows(signals_df.df) = NRows(macd_df.df)
    /\ {"Buy_Signal", "Sell_Signal"} \subseteq signals_df.df.cols
    /\ \A t \in SignalRows :
         /\ signals_df.df.rows[t]["Buy_Signal"] \in {Bool(TRUE), Bool(FALSE)}
         /\ signals_df.df.rows[t]["Sell_Signal"] \in {Bool(TRUE), Bool(FALSE)}
         /\ BuyAt(t) <=> (t > 1 /\ MacdOverSignal(t) /\ ~MacdOverSignal(t - 1))
         /\ SellAt(t) <=> (t > 1 /\ MacdOverSignal(t - 1) /\ ~MacdOverSignal(t))
         /\ t = 1 => ~BuyAt(t) /\ ~SellAt(t)
         /\ ~(BuyAt(t) /\ SellAt(t))
    /\ \A s, t \in SignalRows :
         s < t =>
           /\ (BuyAt(s) /\ BuyAt(t)) => \E u \in (s + 1)..(t - 1) : SellAt(u)
           /\ (SellAt(s) /\ SellAt(t)) => \E u \in (s + 1)..(t - 1) : BuyAt(u)

\* two buy signals with a sell signal between them, in a frame in which a
\* MACD value is missing or equals its Signal value
C21_Witness ==
  /\ SignalsReturned
  /\ \E s, u, t \in SignalRows :
       s < u /\ u < t /\ BuyAt(s) /\ SellAt(u) /\ BuyAt(t)
  /\ \E k \in SignalRows :
       \/ macd_df.df.rows[k]["MACD"] = NA
       \/ macd_df.df.rows[k]["MACD"] = macd_df.df.rows[k]["Signal"]

====
